---- MODULE Spec2Model ----
(***************************************************************************)
(* State-machine model of the muta-cross asset ledger                      *)
(* (services/asset) and cross-chain bridge (services/crosschain).          *)
(*                                                                         *)
(* Every handler is an operator from (state, context, payload) to          *)
(* (state, result, events), written statement by statement after the Rust  *)
(* code; the actions apply one handler to the current state.  Store writes *)
(* (set_account_value, StoreMap::insert, StoreUint64::add) take effect at  *)
(* the statement that performs them: the store is a point get/insert       *)
(* interface without a multi-key transaction.                              *)
(***************************************************************************)
EXTENDS Integers, Sequences, FiniteSets, TLC

\* ------------------------------------------------------------------ bounds
\* Width of the u128 type in bytes, scaled down from 16.
U128Bytes == 2
\* Number of calls dispatched after genesis.
MaxSteps == 2

\* ------------------------------------------------------- numeric semantics
U128Max == 256 ^ U128Bytes - 1

\* Mutant of overflowing_add: the sum wraps and no overflow is reported.
overflowing_add_wrapping(a, b) ==
    [v |-> (a + b) % (256 ^ U128Bytes), overflow |-> FALSE]

overflowing_add(a, b) ==
    [v |-> (a + b) % (U128Max + 1), overflow |-> a + b > U128Max]

overflowing_sub(a, b) ==
    [v |-> (a - b) % (U128Max + 1), overflow |-> a < b]

\* ------------------------------------------------------------ Option, Map
None == <<>>
Some(x) == <<x>>
unwrap_or(opt, d) == IF opt = None THEN d ELSE opt[1]

EmptyMap == [x \in {} |-> 0]
\* BTreeMap entry(k).and_modify(|e| *e = v).or_insert(v)
entry_set(m, k, v) == [x \in (DOMAIN m) \cup {k} |-> IF x = k THEN v ELSE m[x]]
\* BTreeMap get(k).unwrap_or(&0)
map_get_or0(m, k) == IF k \in DOMAIN m THEN m[k] ELSE 0

\* ------------------------------------------------------ addresses, hashes
Addresses == {"a1", "a2", "a3"}
GenesisIssuer == "a1"
\* Address::from_hex("0xc4b0000000000000000000000000000000000000")
BridgeIssuer == "c4b0"
AllAddresses == Addresses \cup {BridgeIssuer}

\* Address::as_hex and Address::from_hex: text <-> address.
as_hex(a) == <<"0x", a>>
Address_from_hex(s) ==
    IF Len(s) = 2 /\ s[1] = "0x" /\ s[2] \in AllAddresses
    THEN [ok |-> TRUE, val |-> s[2]]
    ELSE [ok |-> FALSE, val |-> ""]

\* ServiceContext extra: Option<Bytes>.  ADMISSION_TOKEN = b"crosschain".
ADMISSION_TOKEN == <<"crosschain">>

\* A Hash is modelled by the data that determines it (a collision-free
\* digest): <<text, number, address text>>.
NativeAssetId == <<"native", 0, <<>>>>
SudtTokenId == <<"sudt", 0, <<>>>>
SUDT_CODE_HASH == <<"sudt_code", 0, <<>>>>
OtherCodeHash == <<"other_code", 0, <<>>>>

Names == {"tokenA"}
CreateSupplies == {2, U128Max}
\* Mutant of create_asset_id: the caller is left out of the digest.
create_asset_id_without_caller(payload, caller) ==
    <<payload.name, payload.supply, <<"0x", "a1">>>>

\* serde_json::to_string(&payload) + &caller.as_hex(), then Hash::digest
create_asset_id(payload, caller) == <<payload.name, payload.supply, as_hex(caller)>>

CreatedIds ==
    {create_asset_id([name |-> n, supply |-> s], c) :
        n \in Names, s \in CreateSupplies, c \in Addresses}
AssetIds == {NativeAssetId, SudtTokenId} \cup CreatedIds

\* Hash::as_hex and Hash::from_hex.
hash_as_hex(h) == <<"0x", h>>
Hash_from_hex(s) ==
    IF Len(s) = 2 /\ s[1] = "0x" /\ s[2] \in AssetIds
    THEN [ok |-> TRUE, val |-> s[2]]
    ELSE [ok |-> FALSE, val |-> NativeAssetId]

\* &token_id.as_hex().as_str()[2..7]: a five-character slice of the hex text
hex_slice(h) == h[1]

\* ------------------------------------------------------------------ store
\* st = [assets : AssetIds -> Option(Asset),
\*       accounts : AllAddresses \X AssetIds -> Option(AssetBalance),
\*       nonce : the withdrawal counter,
\*       headers : height -> CkbHeaderInner, for the heights stored]
contains(assets, id) == assets[id] # None
insert(assets, id, asset) == [assets EXCEPT ![id] = Some(asset)]
get_account_value(accounts, addr, id) == accounts[<<addr, id>>]
set_account_value(accounts, addr, id, bal) ==
    [accounts EXCEPT ![<<addr, id>>] = Some(bal)]

DefaultBalance == [value |-> 0, allowance |-> EmptyMap]

\* ---------------------------------------------------------------- results
Ok == [kind |-> "Ok"]
Err(k) == [kind |-> k]
LackOfBalance(e, r) == [kind |-> "LackOfBalance", expect |-> e, real |-> r]

Ret(st, res, ev) == [st |-> st, res |-> res, ev |-> ev]

\* ---------------------------------------------------------- asset service
\* mint_token with four switches, for its mutants: open drops the permission
\* check; fresh writes the receiver a new record; supplied registers the
\* descriptor with the minted amount as supply; counted adds the amount to
\* the supply of a registered descriptor.
mint_token_variant(st, ctx, payload, open, fresh, supplied, counted) ==
    LET token_id == payload.token_id
        old == unwrap_or(get_account_value(st.accounts, payload.receiver, token_id),
                         [value |-> 0, allowance |-> [x \in {} |-> 0]])
        sum == old.value + payload.amount
    IN
    IF ~open /\ ctx.extra = None THEN [st |-> st, res |-> [kind |-> "NoPermission"], ev |-> <<>>]
    ELSE IF st.assets[token_id] = <<>> THEN
        [st |-> [st EXCEPT
                    !.assets[token_id] =
                        <<[id |-> token_id,
                           name |-> "ckb-image_token" \o hex_slice(token_id),
                           supply |-> IF supplied THEN payload.amount ELSE 0,
                           issuer |-> BridgeIssuer]>>,
                    !.accounts[<<payload.receiver, token_id>>] =
                        <<[value |-> payload.amount, allowance |-> [x \in {} |-> 0]]>>],
         res |-> [kind |-> "Ok"], ev |-> <<>>]
    ELSE IF sum > U128Max THEN [st |-> st, res |-> [kind |-> "U128Overflow"], ev |-> <<>>]
    ELSE
        [st |-> [st EXCEPT
                    !.assets[token_id] =
                        IF counted
                        THEN <<[st.assets[token_id][1] EXCEPT
                                   !.supply = @ + payload.amount]>>
                        ELSE @,
                    !.accounts[<<payload.receiver, token_id>>] =
                        IF fresh
                        THEN <<[value |-> sum, allowance |-> [x \in {} |-> 0]]>>
                        ELSE <<[old EXCEPT !.value = sum]>>],
         res |-> [kind |-> "Ok"], ev |-> <<>>]

\* Mutant of mint_token: the permission check is missing.
mint_token_open(st, ctx, payload) ==
    mint_token_variant(st, ctx, payload, TRUE, FALSE, FALSE, FALSE)

\* Mutant of mint_token: the receiver's record is written anew, without the
\* allowances it held.
mint_token_fresh_record(st, ctx, payload) ==
    mint_token_variant(st, ctx, payload, FALSE, TRUE, FALSE, FALSE)

\* Mutant of mint_token: the descriptor is registered with the first minted
\* amount as its supply.
mint_token_supplied(st, ctx, payload) ==
    mint_token_variant(st, ctx, payload, FALSE, FALSE, TRUE, FALSE)

\* Mutant of mint_token: a mint into a registered asset raises its supply.
mint_token_counted(st, ctx, payload) ==
    mint_token_variant(st, ctx, payload, FALSE, FALSE, FALSE, TRUE)

mint_token(st, ctx, payload) ==
    IF ctx.extra = None THEN Ret(st, Err("NoPermission"), <<>>)
    ELSE
    LET token_id == payload.token_id IN
    IF ~contains(st.assets, token_id) THEN
        LET asset == [id |-> token_id,
                      name |-> "ckb-image_token" \o hex_slice(token_id),
                      supply |-> 0,
                      issuer |-> BridgeIssuer]
            asset_balance == [value |-> payload.amount, allowance |-> EmptyMap]
        IN Ret([st EXCEPT
                   !.assets = insert(st.assets, token_id, asset),
                   !.accounts = set_account_value(st.accounts, payload.receiver,
                                                  asset.id, asset_balance)],
               Ok, <<>>)
    ELSE
        LET receiver_balance ==
                unwrap_or(get_account_value(st.accounts, payload.receiver, token_id),
                          DefaultBalance)
            r == overflowing_add(receiver_balance.value, payload.amount)
        IN IF r.overflow THEN Ret(st, Err("U128Overflow"), <<>>)
           ELSE Ret([st EXCEPT !.accounts =
                        set_account_value(st.accounts, payload.receiver, token_id,
                            [receiver_balance EXCEPT !.value = r.v])],
                    Ok, <<>>)

\* Mutant of get_balance: a user without a record is an error.
get_balance_requires_record(st, ctx, payload) ==
    IF st.assets[payload.asset_id] = <<>> \/ st.accounts[<<payload.user, payload.asset_id>>] = <<>>
    THEN [st |-> st, res |-> [kind |-> "NotFoundAsset"], ev |-> <<>>]
    ELSE [st |-> st,
          res |-> [kind |-> "Ok", asset_id |-> payload.asset_id, user |-> payload.user,
                   balance |-> st.accounts[<<payload.user, payload.asset_id>>][1].value],
          ev |-> <<>>]

\* #[read] get_balance: the response is carried in the result.
get_balance(st, ctx, payload) ==
    IF ~contains(st.assets, payload.asset_id)
    THEN Ret(st, Err("NotFoundAsset"), <<>>)
    ELSE
    LET asset_balance ==
            unwrap_or(get_account_value(st.accounts, payload.user, payload.asset_id),
                      [value |-> 0, allowance |-> EmptyMap])
    IN Ret(st, [kind |-> "Ok", asset_id |-> payload.asset_id,
                user |-> payload.user, balance |-> asset_balance.value], <<>>)

\* #[read] get_allowance
get_allowance(st, ctx, payload) ==
    IF ~contains(st.assets, payload.asset_id)
    THEN Ret(st, Err("NotFoundAsset"), <<>>)
    ELSE
    LET opt_asset_balance ==
            get_account_value(st.accounts, payload.grantor, payload.asset_id)
    IN IF opt_asset_balance # None
       THEN Ret(st, [kind |-> "Ok", asset_id |-> payload.asset_id,
                     grantor |-> payload.grantor, grantee |-> payload.grantee,
                     value |-> map_get_or0(opt_asset_balance[1].allowance,
                                           payload.grantee)], <<>>)
       ELSE Ret(st, [kind |-> "Ok", asset_id |-> payload.asset_id,
                     grantor |-> payload.grantor, grantee |-> payload.grantee,
                     value |-> 0], <<>>)

\* burn_token with two switches, for its mutants: strict refuses to burn a
\* whole balance (<= for <); swapped reports expect and real exchanged.
burn_token_variant(st, ctx, payload, strict, swapped) ==
    LET bal == unwrap_or(get_account_value(st.accounts, payload.user, payload.token_id),
                         DefaultBalance)
        lacking == IF strict THEN bal.value <= payload.amount
                   ELSE bal.value < payload.amount
    IN
    IF ctx.extra = None THEN Ret(st, Err("NoPermission"), <<>>)
    ELSE IF ~contains(st.assets, payload.token_id)
    THEN Ret(st, Err("NotFoundAsset"), <<>>)
    ELSE IF lacking
    THEN Ret(st, IF swapped THEN LackOfBalance(bal.value, payload.amount)
                 ELSE LackOfBalance(payload.amount, bal.value), <<>>)
    ELSE Ret([st EXCEPT !.accounts =
                 set_account_value(st.accounts, payload.user, payload.token_id,
                     [bal EXCEPT !.value = bal.value - payload.amount])],
             Ok, <<>>)

\* Mutant of burn_token: a burn of the whole balance is refused.
burn_token_strict(st, ctx, payload) ==
    burn_token_variant(st, ctx, payload, TRUE, FALSE)

\* Mutant of burn_token: LackOfBalance carries expect and real exchanged.
burn_token_swapped(st, ctx, payload) ==
    burn_token_variant(st, ctx, payload, FALSE, TRUE)

\* Mutant of burn_token: the burn is accepted and the balance is not
\* written.
burn_token_keeps_balance(st, ctx, payload) ==
    LET bal == unwrap_or(get_account_value(st.accounts, payload.user, payload.token_id),
                         [value |-> 0, allowance |-> [x \in {} |-> 0]])
    IN
    IF ctx.extra = <<>> THEN [st |-> st, res |-> [kind |-> "NoPermission"], ev |-> <<>>]
    ELSE IF st.assets[payload.token_id] = <<>>
    THEN [st |-> st, res |-> [kind |-> "NotFoundAsset"], ev |-> <<>>]
    ELSE IF bal.value < payload.amount
    THEN [st |-> st,
          res |-> [kind |-> "LackOfBalance", expect |-> payload.amount,
                   real |-> bal.value],
          ev |-> <<>>]
    ELSE [st |-> st, res |-> [kind |-> "Ok"], ev |-> <<>>]

burn_token(st, ctx, payload) ==
    IF ctx.extra = None THEN Ret(st, Err("NoPermission"), <<>>)
    ELSE IF ~contains(st.assets, payload.token_id)
    THEN Ret(st, Err("NotFoundAsset"), <<>>)
    ELSE
    LET user_asset_balance ==
            unwrap_or(get_account_value(st.accounts, payload.user, payload.token_id),
                      DefaultBalance)
        user_balance == user_asset_balance.value
    IN IF user_balance < payload.amount
       THEN Ret(st, LackOfBalance(payload.amount, user_balance), <<>>)
       ELSE Ret([st EXCEPT !.accounts =
                    set_account_value(st.accounts, payload.user, payload.token_id,
                        [user_asset_balance EXCEPT
                            !.value = user_balance - payload.amount])],
                Ok, <<>>)

create_asset(st, ctx, payload) ==
    LET caller == ctx.caller
        id == create_asset_id(payload, caller)
    IN
    IF contains(st.assets, id) THEN Ret(st, Err("Exists"), <<>>)
    ELSE
    LET asset == [id |-> id, name |-> payload.name,
                  supply |-> payload.supply, issuer |-> caller]
        asset_balance == [value |-> payload.supply, allowance |-> EmptyMap]
    IN Ret([st EXCEPT
               !.assets = insert(st.assets, id, asset),
               !.accounts = set_account_value(st.accounts, asset.issuer, asset.id,
                                              asset_balance)],
           Ok, <<[event |-> "Asset", asset |-> asset]>>)

\* Mutant of _transfer: the recipient is credited, the sender's record is
\* not written back.
_transfer_no_debit(st, sender, recipient, asset_id, value) ==
    LET sender_balance ==
            unwrap_or(get_account_value(st.accounts, sender, asset_id),
                      [value |-> 0, allowance |-> [x \in {} |-> 0]]).value
        to_asset_balance ==
            unwrap_or(get_account_value(st.accounts, recipient, asset_id),
                      [value |-> 0, allowance |-> [x \in {} |-> 0]])
        r == overflowing_add(to_asset_balance.value, value)
    IN
    IF sender = recipient THEN [st |-> st, res |-> [kind |-> "RecipientIsSender"]]
    ELSE IF sender_balance < value
    THEN [st |-> st, res |-> [kind |-> "LackOfBalance", expect |-> value,
                              real |-> sender_balance]]
    ELSE IF r.overflow THEN [st |-> st, res |-> [kind |-> "U128Overflow"]]
    ELSE [st |-> [st EXCEPT !.accounts =
                     set_account_value(st.accounts, recipient, asset_id,
                         [to_asset_balance EXCEPT !.value = r.v])],
          res |-> [kind |-> "Ok"]]

\* Mutant of _transfer: the recipient's record is written before the
\* sender's balance is checked.
_transfer_credits_first(st, sender, recipient, asset_id, value) ==
    LET sender_asset_balance ==
            unwrap_or(get_account_value(st.accounts, sender, asset_id),
                      [value |-> 0, allowance |-> [x \in {} |-> 0]])
        to_asset_balance ==
            unwrap_or(get_account_value(st.accounts, recipient, asset_id),
                      [value |-> 0, allowance |-> [x \in {} |-> 0]])
        sum == to_asset_balance.value + value
        acc1 == set_account_value(st.accounts, recipient, asset_id,
                                  [to_asset_balance EXCEPT !.value = sum])
    IN
    IF sender = recipient THEN [st |-> st, res |-> [kind |-> "RecipientIsSender"]]
    ELSE IF sum > U128Max THEN [st |-> st, res |-> [kind |-> "U128Overflow"]]
    ELSE IF sender_asset_balance.value < value
    THEN [st |-> [st EXCEPT !.accounts = acc1],
          res |-> [kind |-> "LackOfBalance", expect |-> value,
                   real |-> sender_asset_balance.value]]
    ELSE [st |-> [st EXCEPT !.accounts =
                     set_account_value(acc1, sender, asset_id,
                         [sender_asset_balance EXCEPT !.value = @ - value])],
          res |-> [kind |-> "Ok"]]

\* _transfer returns the state and the result; it emits nothing.
_transfer(st, sender, recipient, asset_id, value) ==
    IF sender = recipient THEN [st |-> st, res |-> Err("RecipientIsSender")]
    ELSE
    LET sender_asset_balance ==
            unwrap_or(get_account_value(st.accounts, sender, asset_id), DefaultBalance)
        sender_balance == sender_asset_balance.value
    IN
    IF sender_balance < value
    THEN [st |-> st, res |-> LackOfBalance(value, sender_balance)]
    ELSE
    LET to_asset_balance ==
            unwrap_or(get_account_value(st.accounts, recipient, asset_id), DefaultBalance)
        r == overflowing_add(to_asset_balance.value, value)
    IN
    IF r.overflow THEN [st |-> st, res |-> Err("U128Overflow")]
    ELSE
    LET acc1 == set_account_value(st.accounts, recipient, asset_id,
                                  [to_asset_balance EXCEPT !.value = r.v])
        s == overflowing_sub(sender_balance, value)
    IN
    IF s.overflow
    THEN [st |-> [st EXCEPT !.accounts = acc1], res |-> Err("U128Overflow")]
    ELSE [st |-> [st EXCEPT !.accounts =
                     set_account_value(acc1, sender, asset_id,
                         [sender_asset_balance EXCEPT !.value = s.v])],
          res |-> Ok]

\* The caller a handler acts for: the address in the extra context when there
\* is one, the transaction's caller otherwise.
effective_caller(ctx) ==
    IF ctx.extra # None THEN Address_from_hex(ctx.extra[1])
    ELSE [ok |-> TRUE, val |-> ctx.caller]

transfer(st, ctx, payload) ==
    LET sender == effective_caller(ctx) IN
    IF ~sender.ok THEN Ret(st, Err("InvalidAddress"), <<>>)
    ELSE IF ~contains(st.assets, payload.asset_id)
    THEN Ret(st, Err("NotFoundAsset"), <<>>)
    ELSE
    LET t == _transfer(st, sender.val, payload.to, payload.asset_id, payload.value)
    IN IF t.res # Ok THEN Ret(t.st, t.res, <<>>)
       ELSE Ret(t.st, Ok,
                <<[event |-> "Transfer", asset_id |-> payload.asset_id,
                   from |-> sender.val, to |-> payload.to, value |-> payload.value]>>)

\* Mutant of approve: the value is added to the allowance already granted.
approve_adds(st, ctx, payload) ==
    LET caller == ctx.caller
        to == payload.to
        bal == unwrap_or(get_account_value(st.accounts, caller, payload.asset_id),
                         DefaultBalance)
        sum == (map_get_or0(bal.allowance, to) + payload.value) % (U128Max + 1)
    IN
    IF caller = to THEN Ret(st, Err("ApproveToYourself"), <<>>)
    ELSE IF ~contains(st.assets, payload.asset_id)
    THEN Ret(st, Err("NotFoundAsset"), <<>>)
    ELSE Ret([st EXCEPT !.accounts =
                 set_account_value(st.accounts, caller, payload.asset_id,
                     [bal EXCEPT !.allowance = entry_set(@, to, sum)])],
             Ok,
             <<[event |-> "Approve", asset_id |-> payload.asset_id,
                grantor |-> caller, grantee |-> to, value |-> payload.value]>>)

\* Mutant of approve: the grantor's allowance map is written anew with the
\* one entry.
approve_single_entry(st, ctx, payload) ==
    LET caller == ctx.caller
        to == payload.to
        bal == unwrap_or(get_account_value(st.accounts, caller, payload.asset_id),
                         [value |-> 0, allowance |-> [x \in {} |-> 0]])
    IN
    IF caller = to THEN [st |-> st, res |-> [kind |-> "ApproveToYourself"], ev |-> <<>>]
    ELSE IF st.assets[payload.asset_id] = <<>>
    THEN [st |-> st, res |-> [kind |-> "NotFoundAsset"], ev |-> <<>>]
    ELSE [st |-> [st EXCEPT !.accounts =
                     set_account_value(st.accounts, caller, payload.asset_id,
                         [bal EXCEPT !.allowance = [x \in {to} |-> payload.value]])],
          res |-> [kind |-> "Ok"],
          ev |-> <<[event |-> "Approve", asset_id |-> payload.asset_id,
                    grantor |-> caller, grantee |-> to, value |-> payload.value]>>]

approve(st, ctx, payload) ==
    LET caller == ctx.caller
        to == payload.to
    IN
    IF caller = to THEN Ret(st, Err("ApproveToYourself"), <<>>)
    ELSE IF ~contains(st.assets, payload.asset_id)
    THEN Ret(st, Err("NotFoundAsset"), <<>>)
    ELSE
    LET caller_asset_balance ==
            unwrap_or(get_account_value(st.accounts, caller, payload.asset_id),
                      DefaultBalance)
        updated == [caller_asset_balance EXCEPT
                        !.allowance = entry_set(@, to, payload.value)]
    IN Ret([st EXCEPT !.accounts =
               set_account_value(st.accounts, caller, payload.asset_id, updated)],
           Ok,
           <<[event |-> "Approve", asset_id |-> payload.asset_id,
              grantor |-> caller, grantee |-> to, value |-> payload.value]>>)

\* Mutant of transfer_from: the allowance is not compared with the value.
transfer_from_unchecked(st, ctx, payload) ==
    LET c == effective_caller(ctx)
        bal == unwrap_or(get_account_value(st.accounts, payload.sender, payload.asset_id),
                         [value |-> 0, allowance |-> [x \in {} |-> 0]])
        had == map_get_or0(bal.allowance, c.val)
        left == IF had < payload.value THEN 0 ELSE had - payload.value
        st1 == [st EXCEPT !.accounts =
                   set_account_value(st.accounts, payload.sender, payload.asset_id,
                       [bal EXCEPT !.allowance = entry_set(@, c.val, left)])]
        t == _transfer(st1, payload.sender, payload.recipient, payload.asset_id,
                       payload.value)
    IN
    IF ~c.ok THEN [st |-> st, res |-> [kind |-> "InvalidAddress"], ev |-> <<>>]
    ELSE IF st.assets[payload.asset_id] = <<>>
    THEN [st |-> st, res |-> [kind |-> "NotFoundAsset"], ev |-> <<>>]
    ELSE IF t.res.kind # "Ok" THEN [st |-> t.st, res |-> t.res, ev |-> <<>>]
    ELSE [st |-> t.st, res |-> [kind |-> "Ok"],
          ev |-> <<[event |-> "TransferFrom", asset_id |-> payload.asset_id,
                    caller |-> c.val, sender |-> payload.sender,
                    recipient |-> payload.recipient, value |-> payload.value]>>]

\* transfer_from with two switches, for its mutants: keep leaves the
\* allowance as it was; own moves the caller's value instead of the sender's.
transfer_from_variant(st, ctx, payload, keep, own) ==
    LET c == effective_caller(ctx)
        sender == payload.sender
        asset_id == payload.asset_id
        value == payload.value
        bal == unwrap_or(get_account_value(st.accounts, sender, asset_id),
                         DefaultBalance)
        sender_allowance == map_get_or0(bal.allowance, c.val)
        st1 == IF keep THEN st
               ELSE [st EXCEPT !.accounts =
                        set_account_value(st.accounts, sender, asset_id,
                            [bal EXCEPT !.allowance =
                                entry_set(@, c.val, sender_allowance - value)])]
        t == _transfer(st1, IF own THEN c.val ELSE sender, payload.recipient,
                       asset_id, value)
    IN
    IF ~c.ok THEN Ret(st, Err("InvalidAddress"), <<>>)
    ELSE IF ~contains(st.assets, asset_id) THEN Ret(st, Err("NotFoundAsset"), <<>>)
    ELSE IF sender_allowance < value
    THEN Ret(st, LackOfBalance(value, sender_allowance), <<>>)
    ELSE IF t.res # Ok THEN Ret(t.st, t.res, <<>>)
    ELSE Ret(t.st, Ok,
             <<[event |-> "TransferFrom", asset_id |-> asset_id,
                caller |-> c.val, sender |-> sender,
                recipient |-> payload.recipient, value |-> value]>>)

\* Mutant of transfer_from: the allowance is checked but not decremented.
transfer_from_keeps_allowance(st, ctx, payload) ==
    transfer_from_variant(st, ctx, payload, TRUE, FALSE)

\* Mutant of transfer_from: the value is taken from the caller's balance.
transfer_from_spends_caller(st, ctx, payload) ==
    transfer_from_variant(st, ctx, payload, FALSE, TRUE)

transfer_from(st, ctx, payload) ==
    LET c == effective_caller(ctx) IN
    IF ~c.ok THEN Ret(st, Err("InvalidAddress"), <<>>)
    ELSE
    LET caller == c.val
        sender == payload.sender
        recipient == payload.recipient
        asset_id == payload.asset_id
        value == payload.value
    IN
    IF ~contains(st.assets, asset_id) THEN Ret(st, Err("NotFoundAsset"), <<>>)
    ELSE
    LET sender_asset_balance ==
            unwrap_or(get_account_value(st.accounts, sender, asset_id), DefaultBalance)
        \* allowance.entry(caller).or_insert(0)
        sender_allowance == map_get_or0(sender_asset_balance.allowance, caller)
    IN
    IF sender_allowance < value
    THEN Ret(st, LackOfBalance(value, sender_allowance), <<>>)
    ELSE
    LET after_sender_allowance == sender_allowance - value
        updated == [sender_asset_balance EXCEPT
                        !.allowance = entry_set(@, caller, after_sender_allowance)]
        st1 == [st EXCEPT !.accounts =
                    set_account_value(st.accounts, sender, asset_id, updated)]
        t == _transfer(st1, sender, recipient, asset_id, value)
    IN IF t.res # Ok THEN Ret(t.st, t.res, <<>>)
       ELSE Ret(t.st, Ok,
                <<[event |-> "TransferFrom", asset_id |-> asset_id,
                   caller |-> caller, sender |-> sender,
                   recipient |-> recipient, value |-> value]>>)

\* ----------------------------------------------------- crosschain service
\* Hex data of an output (outputs_data[i]) is modelled by the bytes it
\* decodes to; LittleEndian::read_u128 reads the first U128Bytes of them and
\* panics on a shorter slice.
RECURSIVE read_u128(_, _)
read_u128(bytes, n) ==
    IF n = 0 THEN 0 ELSE bytes[1] + 256 * read_u128(Tail(bytes), n - 1)

Panic(st, ev) == Ret(st, Err("Panic"), ev)

\* The context of a call made through sdk.write(&ctx, Some(ADMISSION_TOKEN), ..)
admitted(ctx) == [caller |-> ctx.caller, extra |-> Some(ADMISSION_TOKEN)]

check_tx(tx) ==
    IF Len(tx.outputs) = 0 THEN Err("Panic")
    ELSE
    LET output == tx.outputs[1] IN
    IF \/ output.type_ = None
       \/ output.type_[1].code_hash # SUDT_CODE_HASH
       \/ Len(tx.witnesses) = 0
    THEN Err("InvalidCrossTx")
    ELSE Ok

mint_event(token_id, receiver, amount) ==
    [event |-> "MintToken", asset_id |-> token_id,
     asset_name |-> "ckb_image_token" \o hex_slice(token_id),
     receiver |-> receiver, amount |-> amount,
     kind |-> "cross_to_muta", topic |-> "mint_asset"]

\* Mutant of relay_fee: the fee is rounded up.
relay_fee_rounds_up(amount) == (amount + 99) \div 100

\* let amount_relay = amount / 100
relay_fee(amount) == amount \div 100

\* One iteration of the loop of submit_messages, from state st with the
\* events ev emitted so far.
submit_message(st, ctx, m, ev) ==
    LET tx == m.tx
        checked == check_tx(tx)
    IN
    IF checked # Ok THEN Ret(st, checked, ev)
    ELSE
    LET token == Hash_from_hex(tx.outputs[1].type_[1].args) IN
    IF ~token.ok THEN Ret(st, Err("InvalidHash"), ev)
    ELSE IF Len(tx.outputs_data) = 0 THEN Panic(st, ev)
    ELSE IF Len(tx.outputs_data[1]) < U128Bytes THEN Panic(st, ev)
    ELSE
    LET decoded == read_u128(tx.outputs_data[1], U128Bytes)
        recv == Address_from_hex(tx.witnesses[Len(tx.witnesses)])
    IN
    IF ~recv.ok THEN Ret(st, Err("InvalidAddress"), ev)
    ELSE
    LET token_id == token.val
        receiver == recv.val
        amount_relay == relay_fee(decoded)
        amount == decoded - amount_relay
        m1 == mint_token(st, admitted(ctx),
                         [token_id |-> token_id, receiver |-> receiver,
                          amount |-> amount])
    IN
    IF m1.res # Ok THEN Ret(m1.st, m1.res, ev)
    ELSE
    LET ev1 == Append(ev, mint_event(token_id, receiver, amount))
        m2 == mint_token(m1.st, admitted(ctx),
                         [token_id |-> token_id, receiver |-> ctx.caller,
                          amount |-> amount_relay])
    IN
    IF m2.res # Ok THEN Ret(m2.st, m2.res, ev1)
    ELSE Ret(m2.st, Ok, Append(ev1, mint_event(token_id, ctx.caller, amount_relay)))

RECURSIVE submit_loop(_, _, _, _)
submit_loop(st, ctx, messages, ev) ==
    IF messages = <<>> THEN Ret(st, Ok, ev)
    ELSE LET r == submit_message(st, ctx, Head(messages), ev)
         IN IF r.res # Ok THEN r
            ELSE submit_loop(r.st, ctx, Tail(messages), r.ev)

submit_messages(st, ctx, payload) == submit_loop(st, ctx, payload.messages, <<>>)

\* Mutant of burn_sudt: the nonce advances before the burn's result is
\* looked at.
burn_sudt_counts_attempts(st, ctx, payload) ==
    LET b == burn_token(st, admitted(ctx),
                        [token_id |-> payload.token_id, user |-> ctx.caller,
                         amount |-> payload.amount])
        st1 == [b.st EXCEPT !.nonce = b.st.nonce + 1]
    IN
    IF b.res # Ok THEN Ret(st1, b.res, <<>>)
    ELSE Ret(st1, Ok,
             <<[event |-> "BurnToken", asset_id |-> payload.token_id,
                muta_sender |-> ctx.caller, ckb_receiver |-> payload.receiver,
                amount |-> payload.amount, nonce |-> st1.nonce,
                kind |-> "cross_to_ckb", topic |-> "burn_asset"]>>)

\* Mutant of burn_sudt: the event carries the nonce read before the
\* increment.
burn_sudt_stale_nonce(st, ctx, payload) ==
    LET b == burn_token(st, admitted(ctx),
                        [token_id |-> payload.token_id, user |-> ctx.caller,
                         amount |-> payload.amount])
    IN
    IF b.res # Ok THEN Ret(b.st, b.res, <<>>)
    ELSE Ret([b.st EXCEPT !.nonce = b.st.nonce + 1], Ok,
             <<[event |-> "BurnToken", asset_id |-> payload.token_id,
                muta_sender |-> ctx.caller, ckb_receiver |-> payload.receiver,
                amount |-> payload.amount, nonce |-> b.st.nonce,
                kind |-> "cross_to_ckb", topic |-> "burn_asset"]>>)

burn_sudt(st, ctx, payload) ==
    LET b == burn_token(st, admitted(ctx),
                        [token_id |-> payload.token_id, user |-> ctx.caller,
                         amount |-> payload.amount])
    IN
    IF b.res # Ok THEN Ret(b.st, b.res, <<>>)
    ELSE
    LET st1 == [b.st EXCEPT !.nonce = b.st.nonce + 1] IN
    Ret(st1, Ok,
        <<[event |-> "BurnToken", asset_id |-> payload.token_id,
           muta_sender |-> ctx.caller, ckb_receiver |-> payload.receiver,
           amount |-> payload.amount, nonce |-> st1.nonce,
           kind |-> "cross_to_ckb", topic |-> "burn_asset"]>>)

\* --------------------------------------------------------------- headers
\* A Hex text is <<"0x", digits>>, digits a sequence of hexadecimal digits
\* 0 .. 15.  The widths of u32 and u64 are scaled with that of u128.
U32Max == 16 ^ (U128Bytes - 1) - 1
U64Max == 256 ^ (U128Bytes - 1) - 1

as_string_trim0x(h) == h[2]

RECURSIVE hex_value(_)
hex_value(digits) ==
    IF digits = <<>> THEN 0
    ELSE 16 * hex_value(SubSeq(digits, 1, Len(digits) - 1)) + digits[Len(digits)]

\* uN::from_str_radix(s, 16): an error for the empty text and for a value
\* beyond the width.
from_str_radix(s, max) ==
    IF Len(s) = 0 \/ hex_value(s) > max THEN [ok |-> FALSE, val |-> 0]
    ELSE [ok |-> TRUE, val |-> hex_value(s)]

CkbHeaderInner_from(h) ==
    LET compact_target == from_str_radix(as_string_trim0x(h.compact_target), U32Max)
        version == from_str_radix(as_string_trim0x(h.version), U32Max)
        timestamp == from_str_radix(as_string_trim0x(h.timestamp), U64Max)
        number == from_str_radix(as_string_trim0x(h.number), U64Max)
        epoch == from_str_radix(as_string_trim0x(h.epoch), U64Max)
        nonce == from_str_radix(as_string_trim0x(h.epoch), U128Max)
    IN IF /\ compact_target.ok /\ version.ok /\ timestamp.ok
          /\ number.ok /\ epoch.ok /\ nonce.ok
       THEN [ok |-> TRUE,
             val |-> [compact_target |-> compact_target.val,
                      version |-> version.val,
                      timestamp |-> timestamp.val,
                      number |-> number.val,
                      epoch |-> epoch.val,
                      parent_hash |-> h.parent_hash,
                      transactions_root |-> h.transactions_root,
                      proposals_hash |-> h.proposals_hash,
                      uncles_hash |-> h.uncles_hash,
                      dao |-> h.dao,
                      nonce |-> nonce.val]]
       ELSE [ok |-> FALSE, val |-> <<>>]

\* Mutant of update_header: a height that holds a header keeps it.
update_header_keeps_first(st, h) ==
    LET inner_header == CkbHeaderInner_from(h) IN
    IF ~inner_header.ok THEN [st |-> st, res |-> [kind |-> "InvalidCrossHeader"]]
    ELSE IF inner_header.val.number \in DOMAIN st.headers
    THEN [st |-> st, res |-> [kind |-> "Ok"]]
    ELSE [st |-> [st EXCEPT !.headers =
                     entry_set(@, inner_header.val.number, inner_header.val)],
          res |-> [kind |-> "Ok"]]

\* One iteration of the loop of update_headers.
update_header(st, h) ==
    LET inner_header == CkbHeaderInner_from(h) IN
    IF ~inner_header.ok THEN [st |-> st, res |-> Err("InvalidCrossHeader")]
    ELSE LET height == inner_header.val.number
         IN [st |-> [st EXCEPT !.headers = entry_set(@, height, inner_header.val)],
             res |-> Ok]

RECURSIVE update_loop(_, _)
update_loop(st, hs) ==
    IF hs = <<>> THEN Ret(st, Ok, <<>>)
    ELSE LET r == update_header(st, Head(hs))
         IN IF r.res # Ok THEN Ret(r.st, r.res, <<>>)
            ELSE update_loop(r.st, Tail(hs))

update_headers(st, ctx, payload) == update_loop(st, payload.headers)

\* ------------------------------------------------------------------ state
VARIABLES
    headers,    \* CrosschainService.headers: height -> CkbHeaderInner
    assets,     \* AssetService.assets
    accounts,   \* the account values written through the sdk
    nonce,      \* CrosschainService.nonce
    call,       \* the last call dispatched: [op, ctx, payload]
    result,     \* its result
    events,     \* the events emitted through its context
    pre,        \* the stored state it started from
    withdrawn,  \* the nonces of the BurnToken events emitted since genesis
    steps       \* number of calls dispatched

vars == <<headers, assets, accounts, nonce, call, result, events, pre,
         withdrawn, steps>>

St == [assets |-> assets, accounts |-> accounts, nonce |-> nonce,
       headers |-> headers]

\* ----------------------------------------------------------------- inputs
Amounts == {0, 1, U128Max}
SpendAmounts == {1, U128Max}
GenesisSupplies == {U128Max}
PayloadAssetIds == {NativeAssetId, SudtTokenId}

Plain(a) == [caller |-> a, extra |-> None]
PlainCtxs == {Plain(a) : a \in Addresses}
\* Contexts carrying an extra: the admission token, or the text of an address.
ExtraCtxs ==
    {[caller |-> "a1", extra |-> Some(ADMISSION_TOKEN)],
     [caller |-> "a1", extra |-> Some(as_hex("a3"))]}

le_bytes(x, n) == [i \in 1..n |-> (x \div (256 ^ (i - 1))) % 256]
DepositAmounts == {99, 10000}
sudt_output(args) ==
    [type_ |-> Some([code_hash |-> SUDT_CODE_HASH, args |-> args])]
deposit(amount, receiver) ==
    [tx |-> [outputs |-> <<sudt_output(hash_as_hex(SudtTokenId))>>,
             outputs_data |-> <<le_bytes(amount, U128Bytes)>>,
             witnesses |-> <<as_hex(receiver)>>]]
Deposits == {deposit(a, r) : a \in DepositAmounts, r \in {"a1", "a2"}}
Malformed ==
    {[tx |-> [outputs |-> <<>>, outputs_data |-> <<>>, witnesses |-> <<>>]],
     [tx |-> [outputs |-> <<[type_ |-> None]>>,
              outputs_data |-> <<le_bytes(250, U128Bytes)>>,
              witnesses |-> <<as_hex("a1")>>]],
     [tx |-> [outputs |-> <<[type_ |-> Some([code_hash |-> OtherCodeHash,
                                              args |-> hash_as_hex(SudtTokenId)])]>>,
              outputs_data |-> <<le_bytes(250, U128Bytes)>>,
              witnesses |-> <<as_hex("a1")>>]],
     [tx |-> [outputs |-> <<sudt_output(hash_as_hex(SudtTokenId))>>,
              outputs_data |-> <<le_bytes(250, U128Bytes)>>,
              witnesses |-> <<>>]],
     [tx |-> [outputs |-> <<sudt_output(hash_as_hex(SudtTokenId))>>,
              outputs_data |-> <<>>,
              witnesses |-> <<as_hex("a1")>>]],
     [tx |-> [outputs |-> <<sudt_output(hash_as_hex(SudtTokenId))>>,
              outputs_data |-> <<<<250>>>>,
              witnesses |-> <<as_hex("a1")>>]]}
Messages == Deposits \cup Malformed
Batches ==
    {<<m>> : m \in Messages}
    \cup {<<m1, m2>> : m1 \in {deposit(10000, "a2")},
                       m2 \in {deposit(10000, "a2"),
                               [tx |-> [outputs |-> <<[type_ |-> None]>>,
                                        outputs_data |-> <<le_bytes(250, U128Bytes)>>,
                                        witnesses |-> <<as_hex("a1")>>]]}}
Relayers == {Plain("a1"), Plain("a3")}

\* Headers: texts of the heights 1 and 2 (1 also written 01), one epoch,
\* nonces that differ from the epoch or equal it, two dao hashes; a height
\* beyond u64, an empty version, and a nonce beyond u128.
Hex(digits) == <<"0x", digits>>

RECURSIVE to_digits(_)
to_digits(n) == IF n < 16 THEN <<n>> ELSE to_digits(n \div 16) \o <<n % 16>>

Header(number_digits, epoch_digits, nonce_digits, dao_hash) ==
    [compact_target |-> Hex(<<1>>),
     version |-> Hex(<<0>>),
     timestamp |-> Hex(<<1, 0>>),
     number |-> Hex(number_digits),
     epoch |-> Hex(epoch_digits),
     parent_hash |-> "parent",
     transactions_root |-> "transactions",
     proposals_hash |-> "proposals",
     uncles_hash |-> "uncles",
     dao |-> dao_hash,
     nonce |-> Hex(nonce_digits)]

ValidHeaders ==
    {Header(n, <<3>>, <<5>>, d) : n \in {<<1>>, <<2>>, <<0, 1>>}, d \in {"dao1", "dao2"}}
    \cup {Header(<<2>>, <<3>>, <<3>>, "dao1")}
UnparsableHeaders ==
    {Header(to_digits(U64Max + 1), <<3>>, <<5>>, "dao1"),
     [Header(<<1>>, <<3>>, <<5>>, "dao1") EXCEPT !.version = Hex(<<>>)]}
HeaderInputs ==
    ValidHeaders \cup UnparsableHeaders
    \cup {Header(<<2>>, <<3>>, to_digits(U128Max + 1), "dao2")}
HeaderBatches ==
    {<<h>> : h \in HeaderInputs} \cup {<<h1, h2>> : h1 \in HeaderInputs, h2 \in HeaderInputs}

\* ------------------------------------------------------------------- Init
\* AssetService::init_genesis and CrosschainService::init_genesis
genesis(payload) ==
    LET asset == [id |-> payload.id, name |-> payload.name,
                  supply |-> payload.supply, issuer |-> payload.issuer]
        asset_balance == [value |-> payload.supply, allowance |-> EmptyMap]
    IN [assets |-> insert([i \in AssetIds |-> None], asset.id, asset),
        accounts |-> set_account_value(
                        [k \in AllAddresses \X AssetIds |-> None],
                        asset.issuer, asset.id, asset_balance),
        nonce |-> 0,
        headers |-> EmptyMap]

Init ==
    \E supply \in GenesisSupplies :
        LET g == genesis([id |-> NativeAssetId, name |-> "native",
                          supply |-> supply, issuer |-> GenesisIssuer])
        IN /\ assets = g.assets
           /\ accounts = g.accounts
           /\ nonce = g.nonce
           /\ headers = g.headers
           /\ call = [op |-> "init_genesis"]
           /\ result = Ok
           /\ events = <<>>
           /\ pre = g
           /\ withdrawn = <<>>
           /\ steps = 0

\* ---------------------------------------------------------------- actions
\* A call that changed nothing is the last call of its run: the calls that
\* can follow it are those that can follow the state it started from.
Dispatch == steps < MaxSteps /\ (steps = 0 \/ St # pre)

RECURSIVE event_nonces(_)
\* The nonces of the BurnToken events of evs, in order.
event_nonces(evs) ==
    IF evs = <<>> THEN <<>>
    ELSE (IF Head(evs).event = "BurnToken" THEN <<Head(evs).nonce>> ELSE <<>>)
         \o event_nonces(Tail(evs))

Apply(op, ctx, payload, r) ==
    /\ assets' = r.st.assets
    /\ accounts' = r.st.accounts
    /\ nonce' = r.st.nonce
    /\ headers' = r.st.headers
    /\ call' = [op |-> op, ctx |-> ctx, payload |-> payload]
    /\ result' = r.res
    /\ events' = r.ev
    /\ pre' = St
    /\ withdrawn' = withdrawn \o event_nonces(r.ev)
    /\ steps' = steps + 1

GetBalance ==
    /\ Dispatch
    /\ \E ctx \in {Plain("a1")}, a \in PayloadAssetIds, u \in Addresses :
        LET payload == [asset_id |-> a, user |-> u]
        IN Apply("get_balance", ctx, payload, get_balance(St, ctx, payload))

GetAllowance ==
    /\ Dispatch
    /\ \E ctx \in {Plain("a1")}, a \in PayloadAssetIds,
          g \in Addresses, s \in Addresses :
        LET payload == [asset_id |-> a, grantor |-> g, grantee |-> s]
        IN Apply("get_allowance", ctx, payload, get_allowance(St, ctx, payload))

CreateAsset ==
    /\ Dispatch
    /\ \E ctx \in PlainCtxs, n \in Names, s \in CreateSupplies :
        LET payload == [name |-> n, supply |-> s]
        IN Apply("create_asset", ctx, payload, create_asset(St, ctx, payload))

MintToken ==
    /\ Dispatch
    /\ \E ctx \in {Plain("a1"), admitted(Plain("a1"))},
          t \in PayloadAssetIds, u \in Addresses, v \in Amounts :
        LET payload == [token_id |-> t, receiver |-> u, amount |-> v]
        IN Apply("mint_token", ctx, payload, mint_token(St, ctx, payload))

BurnToken ==
    /\ Dispatch
    /\ \E ctx \in {Plain("a1"), admitted(Plain("a1"))},
          t \in PayloadAssetIds, u \in Addresses, v \in Amounts :
        LET payload == [token_id |-> t, user |-> u, amount |-> v]
        IN Apply("burn_token", ctx, payload, burn_token(St, ctx, payload))

Transfer ==
    /\ Dispatch
    /\ \E ctx \in PlainCtxs \cup ExtraCtxs,
          a \in PayloadAssetIds, to \in Addresses, v \in Amounts :
        LET payload == [asset_id |-> a, to |-> to, value |-> v]
        IN Apply("transfer", ctx, payload, transfer(St, ctx, payload))

Approve ==
    /\ Dispatch
    /\ \E ctx \in PlainCtxs,
          a \in PayloadAssetIds, to \in Addresses, v \in Amounts :
        LET payload == [asset_id |-> a, to |-> to, value |-> v]
        IN Apply("approve", ctx, payload, approve(St, ctx, payload))

TransferFrom ==
    /\ Dispatch
    /\ \E ctx \in PlainCtxs \cup {[caller |-> "a1", extra |-> Some(as_hex("a3"))]},
          a \in PayloadAssetIds, s \in Addresses, to \in Addresses,
          v \in SpendAmounts :
        LET payload == [asset_id |-> a, sender |-> s, recipient |-> to, value |-> v]
        IN Apply("transfer_from", ctx, payload, transfer_from(St, ctx, payload))

SubmitMessages ==
    /\ Dispatch
    /\ \E ctx \in Relayers, ms \in Batches :
        LET payload == [messages |-> ms]
        IN Apply("submit_messages", ctx, payload, submit_messages(St, ctx, payload))

BurnSudt ==
    /\ Dispatch
    /\ \E ctx \in PlainCtxs, t \in PayloadAssetIds, v \in Amounts :
        LET payload == [token_id |-> t, receiver |-> "ckb1", amount |-> v]
        IN Apply("burn_sudt", ctx, payload, burn_sudt(St, ctx, payload))

UpdateHeaders ==
    /\ Dispatch
    /\ \E ctx \in {Plain("a1")}, hs \in HeaderBatches :
        LET payload == [headers |-> hs]
        IN Apply("update_headers", ctx, payload, update_headers(St, ctx, payload))

Next ==
    \/ GetBalance
    \/ GetAllowance
    \/ CreateAsset
    \/ MintToken
    \/ BurnToken
    \/ Transfer
    \/ Approve
    \/ TransferFrom
    \/ SubmitMessages
    \/ BurnSudt

Spec == Init /\ [][Next]_vars

\* update_headers reads and writes the header store only, and no other
\* handler reads or writes that store: its calls are explored on their own.
HeaderNext == UpdateHeaders

HeaderSpec == Init /\ [][HeaderNext]_vars

\* ------------------------------------------------------------ observation
\* What get_balance and get_allowance report for a registered asset.
balance_of(accts, user, asset_id) ==
    unwrap_or(get_account_value(accts, user, asset_id), DefaultBalance).value

allowance_of(accts, grantor, grantee, asset_id) ==
    map_get_or0(unwrap_or(get_account_value(accts, grantor, asset_id),
                          DefaultBalance).allowance,
                grantee)

SameBalances ==
    \A u \in AllAddresses, a \in AssetIds :
        balance_of(accounts, u, a) = balance_of(pre.accounts, u, a)

SameAllowances ==
    \A g \in AllAddresses, s \in AllAddresses, a \in AssetIds :
        allowance_of(accounts, g, s, a) = allowance_of(pre.accounts, g, s, a)

\* ------------------------------------------------------------------ C1
C1_Case(from, to, a, v) ==
    /\ contains(pre.assets, a)
    /\ from # to
    /\ balance_of(pre.accounts, from, a) >= v

C1_Effect(from, to, a, v) ==
    /\ result = Ok
    /\ balance_of(accounts, from, a) = balance_of(pre.accounts, from, a) - v
    /\ balance_of(accounts, to, a) = balance_of(pre.accounts, to, a) + v
    /\ balance_of(accounts, from, a) + balance_of(accounts, to, a)
         = balance_of(pre.accounts, from, a) + balance_of(pre.accounts, to, a)

\* C1 as stated: every transfer(asset, from, to, v) on a registered asset with
\* balance(from) >= v and from # to succeeds, debits from by exactly v and
\* credits to by exactly v.
C1_TransferAlwaysSucceeds ==
    (call.op = "transfer" /\ effective_caller(call.ctx).ok) =>
        LET from == effective_caller(call.ctx).val
            to == call.payload.to
            a == call.payload.asset_id
            v == call.payload.value
        IN C1_Case(from, to, a, v) => C1_Effect(from, to, a, v)

\* C1 amended: the same, for transfers whose credit fits the recipient's
\* u128 balance (balance(to) + v <= U128Max).
C1_TransferMovesValue ==
    (call.op = "transfer" /\ effective_caller(call.ctx).ok) =>
        LET from == effective_caller(call.ctx).val
            to == call.payload.to
            a == call.payload.asset_id
            v == call.payload.value
        IN (C1_Case(from, to, a, v)
            /\ balance_of(pre.accounts, to, a) + v <= U128Max)
           => C1_Effect(from, to, a, v)

C1_Witness ==
    /\ call.op = "transfer"
    /\ result = Ok
    /\ call.payload.value = 1
    /\ balance_of(pre.accounts, call.payload.to, call.payload.asset_id) = 1
    /\ balance_of(accounts, call.payload.to, call.payload.asset_id) = 2

\* ------------------------------------------------------------------ C2
\* C2: transferFrom never succeeds when allowance(owner, spender) < v; when
\* it succeeds, the allowance afterwards is the prior allowance minus v, and
\* is not negative.
C2_AllowanceSpent ==
    (call.op = "transfer_from" /\ result = Ok) =>
        LET spender == effective_caller(call.ctx).val
            owner == call.payload.sender
            a == call.payload.asset_id
            v == call.payload.value
            before == allowance_of(pre.accounts, owner, spender, a)
            after == allowance_of(accounts, owner, spender, a)
        IN /\ before >= v
           /\ after = before - v
           /\ after >= 0

C2_Witness ==
    /\ call.op = "transfer_from"
    /\ result = Ok
    /\ call.payload.value = 1
    /\ allowance_of(pre.accounts, call.payload.sender, call.ctx.caller,
                    call.payload.asset_id) = U128Max
    /\ allowance_of(accounts, call.payload.sender, call.ctx.caller,
                    call.payload.asset_id) = U128Max - 1

\* ------------------------------------------------------------------ C3
\* The example of the specification, computed with the handlers: asset A of
\* supply 1000 credited to I; transfer(I, X, 300); approve(I, Y, 50);
\* transferFrom(Y, I, Z, 40).  Z is any fourth address.
ExI == "a1"
ExX == "a2"
ExY == "a3"
ExZ == BridgeIssuer
ExGenesis ==
    genesis([id |-> NativeAssetId, name |-> "A", supply |-> 1000, issuer |-> ExI])
ExAfterTransfer ==
    transfer(ExGenesis, Plain(ExI),
             [asset_id |-> NativeAssetId, to |-> ExX, value |-> 300])
ExAfterApprove ==
    approve(ExAfterTransfer.st, Plain(ExI),
            [asset_id |-> NativeAssetId, to |-> ExY, value |-> 50])
ExAfterTransferFrom ==
    transfer_from(ExAfterApprove.st, Plain(ExY),
                  [asset_id |-> NativeAssetId, sender |-> ExI,
                   recipient |-> ExZ, value |-> 40])
C3_Example ==
    /\ ExAfterTransfer.res = Ok
    /\ balance_of(ExAfterTransfer.st.accounts, ExI, NativeAssetId) = 700
    /\ balance_of(ExAfterTransfer.st.accounts, ExX, NativeAssetId) = 300
    /\ ExAfterApprove.res = Ok
    /\ ExAfterTransferFrom.res = Ok
    /\ allowance_of(ExAfterTransferFrom.st.accounts, ExI, ExY, NativeAssetId) = 10
    /\ balance_of(ExAfterTransferFrom.st.accounts, ExI, NativeAssetId) = 660
    /\ balance_of(ExAfterTransferFrom.st.accounts, ExZ, NativeAssetId) = 40

\* C3: a successful transferFrom debits the owner by v and credits the
\* recipient by v as transfer(owner, to, v) does, leaves the spender's own
\* balance unchanged when the spender is neither owner nor recipient, and
\* emits one TransferFrom event; the specification's example comes out as
\* allowance(I, Y) = 10, balance(I) = 660, balance(Z) = 40.
C3_TransferFromMoves ==
    /\ steps = 0 => C3_Example   \* the example does not depend on the state
    /\ (call.op = "transfer_from" /\ result = Ok) =>
        LET spender == effective_caller(call.ctx).val
            owner == call.payload.sender
            to == call.payload.recipient
            a == call.payload.asset_id
            v == call.payload.value
            asTransfer == _transfer(pre, owner, to, a, v)
        IN /\ balance_of(accounts, owner, a) = balance_of(pre.accounts, owner, a) - v
           /\ balance_of(accounts, to, a) = balance_of(pre.accounts, to, a) + v
           /\ \A u \in AllAddresses :
                balance_of(accounts, u, a) = balance_of(asTransfer.st.accounts, u, a)
           /\ (spender # owner /\ spender # to) =>
                balance_of(accounts, spender, a) = balance_of(pre.accounts, spender, a)
           /\ events = <<[event |-> "TransferFrom", asset_id |-> a,
                          caller |-> spender, sender |-> owner,
                          recipient |-> to, value |-> v]>>

C3_Witness ==
    /\ call.op = "transfer_from"
    /\ result = Ok
    /\ call.payload.value = 1
    /\ call.ctx.extra = None
    /\ call.ctx.caller # call.payload.sender
    /\ call.ctx.caller # call.payload.recipient
    /\ balance_of(accounts, call.payload.recipient, call.payload.asset_id) = 1
    /\ balance_of(accounts, call.payload.sender, call.payload.asset_id) = U128Max - 1

\* ------------------------------------------------------------------ C4
\* C4: approve overwrites: after a successful approve(asset, grantor,
\* grantee, v) the allowance(grantor, grantee) is v whatever it was before.
C4_ApproveOverwrites ==
    (call.op = "approve" /\ result = Ok) =>
        allowance_of(accounts, call.ctx.caller, call.payload.to,
                     call.payload.asset_id) = call.payload.value

\* approve(g, v) followed by approve(g, v2) with v # v2, both non-zero
C4_Witness ==
    /\ call.op = "approve"
    /\ result = Ok
    /\ allowance_of(pre.accounts, call.ctx.caller, call.payload.to,
                    call.payload.asset_id) = U128Max
    /\ call.payload.value = 1
    /\ allowance_of(accounts, call.ctx.caller, call.payload.to,
                    call.payload.asset_id) = 1

\* ------------------------------------------------------------------ C5
\* C5: a successful privileged mint(asset, u, v) followed by a privileged
\* burn(asset, u, v) succeeds and leaves balance(u) at the value it had
\* before the mint, also when the mint registered the token id.
C5_MintThenBurnRestores ==
    [][(/\ call.op = "mint_token"
        /\ result = Ok
        /\ call'.op = "burn_token"
        /\ call'.ctx.extra # None
        /\ call'.payload.token_id = call.payload.token_id
        /\ call'.payload.user = call.payload.receiver
        /\ call'.payload.amount = call.payload.amount)
       => (/\ result' = Ok
           /\ balance_of(accounts', call.payload.receiver, call.payload.token_id)
                = balance_of(pre.accounts, call.payload.receiver,
                             call.payload.token_id))]_vars

\* The state after mint(SudtTokenId, u, 1) on the unseen token id and then
\* burn(SudtTokenId, u, 1): the descriptor is the one a first mint writes.
C5_Witness ==
    /\ steps = 2
    /\ call.op = "burn_token"
    /\ result = Ok
    /\ call.payload.token_id = SudtTokenId
    /\ call.payload.amount = 1
    /\ pre.assets[SudtTokenId] # None
    /\ pre.assets[SudtTokenId][1].issuer = BridgeIssuer
    /\ balance_of(pre.accounts, call.payload.user, SudtTokenId) = 1
    /\ balance_of(accounts, call.payload.user, SudtTokenId) = 0

\* ------------------------------------------------------------------ C6
C6_Refused(u, t, v) ==
    /\ result = LackOfBalance(v, balance_of(pre.accounts, u, t))
    /\ St = pre

\* C6 as stated: burn(asset, u, v) with v > balance(u) fails with the
\* insufficient-funds error carrying expect = v and real = balance(u), and
\* changes nothing.
C6_BurnBeyondBalanceLacks ==
    (call.op = "burn_token"
     /\ call.payload.amount
          > balance_of(pre.accounts, call.payload.user, call.payload.token_id))
    => C6_Refused(call.payload.user, call.payload.token_id, call.payload.amount)

\* C6 amended: the same for a privileged burn of a registered asset; a burn
\* without the extra context or of an unknown asset fails NoPermission or
\* NotFoundAsset, and changes nothing either.
C6_PrivilegedBurnBeyondBalanceLacks ==
    (call.op = "burn_token"
     /\ call.payload.amount
          > balance_of(pre.accounts, call.payload.user, call.payload.token_id))
    => IF call.ctx.extra = None
       THEN result = Err("NoPermission") /\ St = pre
       ELSE IF ~contains(pre.assets, call.payload.token_id)
       THEN result = Err("NotFoundAsset") /\ St = pre
       ELSE C6_Refused(call.payload.user, call.payload.token_id,
                       call.payload.amount)

C6_Witness ==
    /\ call.op = "burn_token"
    /\ call.ctx.extra # None
    /\ contains(pre.assets, call.payload.token_id)
    /\ call.payload.amount = U128Max
    /\ balance_of(pre.accounts, call.payload.user, call.payload.token_id) = 1
    /\ result = LackOfBalance(U128Max, 1)

\* ------------------------------------------------------------------ C7
\* The ids under which creator c has registered (name n, supply s).
CreatedBy(reg, c, n, s) ==
    {id \in AssetIds :
        /\ reg[id] # None
        /\ reg[id][1].issuer = c
        /\ reg[id][1].supply = s
        /\ reg[id][1].name = n}

\* C7: createAsset(name, supply) by two distinct creators yields two distinct
\* ids, each creator credited supply under its own id; the same creator's
\* second createAsset(name, supply) fails Exists (DuplicateAsset) and credits
\* nothing.
C7_CreatorBoundIds ==
    call.op = "create_asset" =>
        LET c == call.ctx.caller
            n == call.payload.name
            s == call.payload.supply
        IN IF CreatedBy(pre.assets, c, n, s) # {}
           THEN result = Err("Exists") /\ St = pre
           ELSE /\ result = Ok
                /\ Len(events) = 1
                /\ LET id == events[1].asset.id
                   IN /\ ~contains(pre.assets, id)
                      /\ CreatedBy(assets, c, n, s) = {id}
                      /\ balance_of(accounts, c, id) = s
                      /\ \A c2 \in Addresses \ {c} :
                           \A id2 \in CreatedBy(pre.assets, c2, n, s) :
                              /\ id2 # id
                              /\ assets[id2] = pre.assets[id2]
                              /\ balance_of(accounts, c2, id2)
                                   = balance_of(pre.accounts, c2, id2)

\* The second of two distinct creators has created the same (name, supply).
C7_Witness ==
    /\ call.op = "create_asset"
    /\ result = Ok
    /\ \E c2 \in Addresses \ {call.ctx.caller} :
          /\ CreatedBy(pre.assets, c2, call.payload.name, call.payload.supply) # {}
          /\ CreatedBy(assets, c2, call.payload.name, call.payload.supply) # {}
    /\ CreatedBy(assets, call.ctx.caller, call.payload.name, call.payload.supply) # {}

\* The same creator's second call has been refused.
C7_WitnessDuplicate ==
    /\ call.op = "create_asset"
    /\ result = Err("Exists")
    /\ St = pre

\* ------------------------------------------------------------------ C8
\* C8: the withdrawal nonce increases by exactly 1 on each successful
\* burn_sudt, never decreases, and is unchanged by a failed burn_sudt and by
\* every other operation.
C8_NonceCountsWithdrawals ==
    /\ nonce >= pre.nonce
    /\ IF call.op = "burn_sudt" /\ result = Ok
       THEN nonce = pre.nonce + 1
       ELSE nonce = pre.nonce

C8_Witness ==
    /\ call.op = "burn_sudt"
    /\ result = Ok
    /\ pre.nonce = 1
    /\ nonce = 2

\* ------------------------------------------------------------------ C9
\* The deposit a message of the inputs was built from: <<amount, receiver>>.
DepositOf(m) ==
    CHOOSE d \in DepositAmounts \X Addresses : m = deposit(d[1], d[2])

RECURSIVE Credited(_, _, _)
\* What the messages ms, relayed by relayer, credit to u.
Credited(u, relayer, ms) ==
    IF ms = <<>> THEN 0
    ELSE LET d == DepositOf(Head(ms))
             fee == d[1] \div 100
         IN (IF d[2] = u THEN d[1] - fee ELSE 0)
            + (IF relayer = u THEN fee ELSE 0)
            + Credited(u, relayer, Tail(ms))

\* C9: for each accepted deposit of amount a, submit_messages credits the
\* receiver a - floor(a / 100) and then the relayer floor(a / 100), and emits
\* two mint events in that order with those amounts.
C9_FeeSplit ==
    (call.op = "submit_messages" /\ result = Ok) =>
        LET ms == call.payload.messages
            relayer == call.ctx.caller
        IN /\ \A i \in 1..Len(ms) : ms[i] \in Deposits
           /\ Len(events) = 2 * Len(ms)
           /\ \A i \in 1..Len(ms) :
                LET d == DepositOf(ms[i])
                    feeAmount == d[1] \div 100
                    netAmount == d[1] - feeAmount
                    first == events[2 * i - 1]
                    second == events[2 * i]
                IN /\ first.event = "MintToken" /\ second.event = "MintToken"
                   /\ first.asset_id = SudtTokenId /\ second.asset_id = SudtTokenId
                   /\ first.receiver = d[2] /\ first.amount = netAmount
                   /\ second.receiver = relayer /\ second.amount = feeAmount
           /\ \A u \in AllAddresses :
                balance_of(accounts, u, SudtTokenId)
                  = balance_of(pre.accounts, u, SudtTokenId) + Credited(u, relayer, ms)

\* The example: a deposit of 10000 credits 9900 and 100.
C9_Witness ==
    /\ call.op = "submit_messages"
    /\ result = Ok
    /\ call.payload.messages = <<deposit(10000, "a2")>>
    /\ call.ctx.caller = "a3"
    /\ Len(events) = 2
    /\ events[1].receiver = "a2" /\ events[1].amount = 9900
    /\ events[2].receiver = "a3" /\ events[2].amount = 100
    /\ balance_of(accounts, "a2", SudtTokenId)
         = balance_of(pre.accounts, "a2", SudtTokenId) + 9900
    /\ balance_of(accounts, "a3", SudtTokenId)
         = balance_of(pre.accounts, "a3", SudtTokenId) + 100

\* ----------------------------------------------------------------- C10
\* C10: a transfer_from that fails leaves no persisted side effect: the
\* allowance(owner, spender) and every balance are as before the call.
C10_FailedTransferFromChangesNothing ==
    (call.op = "transfer_from" /\ result # Ok) =>
        SameBalances /\ SameAllowances

\* ----------------------------------------------------------------- C11
\* C11: submit_messages is all-or-nothing: when the call returns an error
\* (a later message is invalid, or the relayer's mint overflows after the
\* receiver's mint succeeded), no balance and no asset descriptor written by
\* the call remains, the mints for earlier messages included, and no event
\* of the call remains.
C11_FailedSubmitChangesNothing ==
    (call.op = "submit_messages" /\ result # Ok) =>
        /\ SameBalances
        /\ assets = pre.assets
        /\ events = <<>>

\* ----------------------------------------------------------------- C12
\* CrosschainService declares effected_proofs (lib.rs 25) and no handler
\* reads or writes it, so the model keeps no record of the deposits minted.
RECURSIVE Fresh(_, _)
\* The messages of ms, in order, without those in done and without repeats.
Fresh(ms, done) ==
    IF ms = <<>> THEN <<>>
    ELSE IF Head(ms) \in done THEN Fresh(Tail(ms), done)
    ELSE <<Head(ms)>> \o Fresh(Tail(ms), done \cup {Head(ms)})

\* C12: no double mint: a successful submit_messages credits the receiver
\* and the relayer only for the deposits that were not minted before, neither
\* earlier in the same call nor by the successful submit_messages call that
\* preceded it.
C12_NoDoubleMint ==
    [][(call'.op = "submit_messages" /\ result' = Ok) =>
        LET done == IF call.op = "submit_messages" /\ result = Ok
                    THEN {call.payload.messages[i] :
                            i \in 1..Len(call.payload.messages)}
                    ELSE {}
        IN \A u \in AllAddresses :
            balance_of(accounts', u, SudtTokenId)
              = balance_of(accounts, u, SudtTokenId)
                + Credited(u, call'.ctx.caller,
                           Fresh(call'.payload.messages, done))]_vars

\* ----------------------------------------------------------------- C13
\* C13: mint_token and burn_token called without an extra context fail
\* NoPermission and change no balance, no allowance and no descriptor, so a
\* caller without the privilege never raises or lowers a balance through
\* them.
C13_UnprivilegedMintBurnRefused ==
    (call.op \in {"mint_token", "burn_token"} /\ call.ctx.extra = None) =>
        /\ result = Err("NoPermission")
        /\ assets = pre.assets
        /\ accounts = pre.accounts
        /\ nonce = pre.nonce
        /\ events = <<>>

\* An unprivileged mint of 1 to a holder of the registered native asset, and
\* an unprivileged burn of 1 from that holder, both refused.
C13_Witness ==
    /\ call.op = "mint_token"
    /\ call.ctx.extra = None
    /\ call.payload.token_id = NativeAssetId
    /\ call.payload.amount = 1
    /\ balance_of(pre.accounts, call.payload.receiver, NativeAssetId) = U128Max - 1
    /\ result = Err("NoPermission")
    /\ accounts = pre.accounts
    /\ burn_token(St, call.ctx, [token_id |-> NativeAssetId, user |-> call.payload.receiver,
                                 amount |-> 1]).res = Err("NoPermission")

\* ----------------------------------------------------------------- C14
\* What the last call is to take from balance(u, a); -1 when it debits
\* another record or none.
C14_Debit(u, a) ==
    LET p == call.payload IN
    CASE call.op = "transfer" ->
            IF a = p.asset_id /\ u = effective_caller(call.ctx).val
            THEN p.value ELSE -1
      [] call.op = "transfer_from" ->
            IF a = p.asset_id /\ u = p.sender THEN p.value ELSE -1
      [] call.op = "burn_token" ->
            IF a = p.token_id /\ u = p.user THEN p.amount ELSE -1
      [] call.op = "burn_sudt" ->
            IF a = p.token_id /\ u = call.ctx.caller THEN p.amount ELSE -1
      [] OTHER -> -1

\* What the last call is to add to balance(u, a); -1 when it credits another
\* record or none.
C14_Credit(u, a) ==
    LET p == call.payload IN
    CASE call.op = "transfer" ->
            IF a = p.asset_id /\ u = p.to THEN p.value ELSE -1
      [] call.op = "transfer_from" ->
            IF a = p.asset_id /\ u = p.recipient THEN p.value ELSE -1
      [] call.op = "mint_token" ->
            IF a = p.token_id /\ u = p.receiver THEN p.amount ELSE -1
      [] call.op = "create_asset" ->
            IF a = create_asset_id(p, call.ctx.caller) /\ u = call.ctx.caller
            THEN p.supply ELSE -1
      [] OTHER -> -1

\* The additions and subtractions the last call would have to wrap abort it.
C14_Aborts ==
    LET p == call.payload
        c == effective_caller(call.ctx)
    IN
    /\ (/\ call.op = "mint_token" /\ call.ctx.extra # None
        /\ balance_of(pre.accounts, p.receiver, p.token_id) + p.amount > U128Max)
        => result = Err("U128Overflow")
    /\ (/\ call.op = "burn_token" /\ call.ctx.extra # None
        /\ contains(pre.assets, p.token_id)
        /\ balance_of(pre.accounts, p.user, p.token_id) < p.amount)
        => result.kind = "LackOfBalance"
    /\ (/\ call.op = "burn_sudt"
        /\ contains(pre.assets, p.token_id)
        /\ balance_of(pre.accounts, call.ctx.caller, p.token_id) < p.amount)
        => result.kind = "LackOfBalance"
    /\ (/\ call.op = "transfer" /\ c.ok /\ c.val # p.to
        /\ contains(pre.assets, p.asset_id)
        /\ \/ balance_of(pre.accounts, c.val, p.asset_id) < p.value
           \/ balance_of(pre.accounts, p.to, p.asset_id) + p.value > U128Max)
        => result.kind \in {"LackOfBalance", "U128Overflow"}
    /\ (/\ call.op = "transfer_from" /\ c.ok /\ p.sender # p.recipient
        /\ contains(pre.assets, p.asset_id)
        /\ \/ allowance_of(pre.accounts, p.sender, c.val, p.asset_id) < p.value
           \/ balance_of(pre.accounts, p.sender, p.asset_id) < p.value
           \/ balance_of(pre.accounts, p.recipient, p.asset_id) + p.value > U128Max)
        => result.kind \in {"LackOfBalance", "U128Overflow"}

\* C14: every stored balance and allowance lies in 0 .. 2^128 - 1 and was
\* obtained without wraparound: a balance that a call lowered is the debited
\* party's, lowered by exactly the amount; a balance that a call raised is a
\* credited party's, raised by exactly the amount (a record that the call
\* did not write holds what it held); an allowance changes only
\* by approve's overwrite or transfer_from's exact decrement; and a call
\* whose addition would exceed 2^128 - 1 or whose subtraction would go below
\* 0 aborts with U128Overflow or LackOfBalance.
C14_NoWraparound ==
    /\ \A k \in DOMAIN accounts :
        accounts[k] # None =>
            /\ accounts[k][1].value \in 0..U128Max
            /\ \A s \in DOMAIN accounts[k][1].allowance :
                accounts[k][1].allowance[s] \in 0..U128Max
    /\ \A k \in DOMAIN accounts :
        accounts[k] # pre.accounts[k] =>
            LET u == k[1]
                a == k[2]
                b == balance_of(accounts, u, a)
                b0 == balance_of(pre.accounts, u, a)
                p == call.payload
            IN /\ b < b0 => b = b0 - C14_Debit(u, a)
               /\ b > b0 => IF call.op = "submit_messages" THEN a = SudtTokenId
                            ELSE b = b0 + C14_Credit(u, a)
               /\ \A s \in AllAddresses :
                    LET w == allowance_of(accounts, u, s, a)
                        w0 == allowance_of(pre.accounts, u, s, a)
                    IN w # w0 =>
                        \/ /\ call.op = "approve"
                           /\ u = call.ctx.caller /\ s = p.to /\ a = p.asset_id
                           /\ w = p.value
                        \/ /\ call.op = "transfer_from"
                           /\ u = p.sender /\ s = effective_caller(call.ctx).val
                           /\ a = p.asset_id
                           /\ w = w0 - p.value
    /\ call.op # "init_genesis" => C14_Aborts

\* A privileged mint of 1 to the holder of 2^128 - 1 is refused.
C14_Witness ==
    /\ call.op = "mint_token"
    /\ call.ctx.extra # None
    /\ call.payload.amount = 1
    /\ balance_of(pre.accounts, call.payload.receiver, call.payload.token_id) = U128Max
    /\ result = Err("U128Overflow")
    /\ accounts = pre.accounts

\* ----------------------------------------------------------------- C15
\* C15 as stated: get_balance returns 0 whenever (user, asset) has no balance
\* record and get_allowance returns 0 whenever (grantor, grantee) has no
\* allowance entry on the asset; otherwise they return the stored amount.
C15_AbsentReadsZero ==
    /\ call.op = "get_balance" =>
        LET rec == accounts[<<call.payload.user, call.payload.asset_id>>]
        IN /\ result.kind = "Ok"
           /\ result.balance = IF rec = None THEN 0 ELSE rec[1].value
    /\ call.op = "get_allowance" =>
        LET rec == accounts[<<call.payload.grantor, call.payload.asset_id>>]
        IN /\ result.kind = "Ok"
           /\ result.value =
                IF rec = None \/ call.payload.grantee \notin DOMAIN rec[1].allowance
                THEN 0 ELSE rec[1].allowance[call.payload.grantee]

\* C15, amended: for a registered asset get_balance returns 0 when (user,
\* asset) has no balance record and the stored amount otherwise, and
\* get_allowance returns 0 when the grantor has no record or no entry for
\* the grantee and the stored entry otherwise; for an asset that is not
\* registered both fail NotFoundAsset.  Neither changes the state.
C15_RegisteredAbsentReadsZero ==
    /\ call.op \in {"get_balance", "get_allowance"} =>
        /\ St = pre
        /\ events = <<>>
        /\ assets[call.payload.asset_id] = None => result = Err("NotFoundAsset")
    /\ (call.op = "get_balance" /\ assets[call.payload.asset_id] # None) =>
        LET rec == accounts[<<call.payload.user, call.payload.asset_id>>]
        IN /\ result.kind = "Ok"
           /\ result.balance = IF rec = None THEN 0 ELSE rec[1].value
    /\ (call.op = "get_allowance" /\ assets[call.payload.asset_id] # None) =>
        LET rec == accounts[<<call.payload.grantor, call.payload.asset_id>>]
        IN /\ result.kind = "Ok"
           /\ result.value =
                IF rec = None \/ call.payload.grantee \notin DOMAIN rec[1].allowance
                THEN 0 ELSE rec[1].allowance[call.payload.grantee]

\* get_balance of the registered native asset for a user without a record
\* answers 0, in a state where another user's record is read as stored and
\* where the allowance of a grantor without a record reads 0.
C15_Witness ==
    /\ call.op = "get_balance"
    /\ call.payload.asset_id = NativeAssetId
    /\ call.payload.user = "a3"
    /\ accounts[<<"a3", NativeAssetId>>] = None
    /\ result.kind = "Ok"
    /\ result.balance = 0
    /\ accounts[<<"a2", NativeAssetId>>] # None
    /\ get_balance(St, call.ctx, [asset_id |-> NativeAssetId, user |-> "a2"]).res.balance = 1
    /\ get_allowance(St, call.ctx, [asset_id |-> NativeAssetId, grantor |-> "a3",
                                    grantee |-> "a1"]).res.value = 0

\* ----------------------------------------------------------------- C16
\* A message without the deposit shape: no outputs, a first output without a
\* type script or with another code hash, no witness, no output data, or
\* output data shorter than a u128.
IllShaped(m) ==
    \/ Len(m.tx.outputs) = 0
    \/ m.tx.outputs[1].type_ = None
    \/ m.tx.outputs[1].type_[1].code_hash # SUDT_CODE_HASH
    \/ Len(m.tx.witnesses) = 0
    \/ Len(m.tx.outputs_data) = 0
    \/ Len(m.tx.outputs_data[1]) < U128Bytes

\* C16: when submit_messages comes to a message without the deposit shape
\* (the messages before it are deposits whose mints do not overflow), it
\* returns the structured error InvalidCrossTx, never a panic, and mints
\* nothing for that message: the balances are those the messages before it
\* left.
C16_IllShapedIsInvalidDeposit ==
    call.op = "submit_messages" =>
        LET ms == call.payload.messages
            relayer == call.ctx.caller
            bad == {i \in 1..Len(ms) : IllShaped(ms[i])}
        IN bad # {} =>
            LET k == CHOOSE i \in bad : \A j \in bad : i <= j
                before == SubSeq(ms, 1, k - 1)
            IN (\A u \in AllAddresses :
                    balance_of(pre.accounts, u, SudtTokenId)
                        + Credited(u, relayer, before) <= U128Max)
               => /\ result = Err("InvalidCrossTx")
                  /\ \A u \in AllAddresses :
                        balance_of(accounts, u, SudtTokenId)
                          = balance_of(pre.accounts, u, SudtTokenId)
                            + Credited(u, relayer, before)

\* ----------------------------------------------------------------- C17
\* C17: asset descriptors are write-once: a descriptor that was registered
\* before a call is registered after it with the same id, name, issuer and
\* supply, whatever the call; mint and burn in particular leave the supply
\* of the descriptor as it was.
C17_DescriptorsWriteOnce ==
    \A id \in AssetIds :
        pre.assets[id] # None =>
            /\ assets[id] # None
            /\ assets[id][1].id = pre.assets[id][1].id
            /\ assets[id][1].name = pre.assets[id][1].name
            /\ assets[id][1].issuer = pre.assets[id][1].issuer
            /\ assets[id][1].supply = pre.assets[id][1].supply

\* A privileged mint of 1 of the registered native asset that succeeded, in
\* a state from which the burn of it succeeds too, with the descriptor and
\* its supply as at genesis.
C17_Witness ==
    /\ call.op = "mint_token"
    /\ result = Ok
    /\ call.payload.token_id = NativeAssetId
    /\ call.payload.amount = 1
    /\ pre.assets[NativeAssetId] # None
    /\ balance_of(accounts, call.payload.receiver, NativeAssetId)
         = balance_of(pre.accounts, call.payload.receiver, NativeAssetId) + 1
    /\ assets[NativeAssetId] = pre.assets[NativeAssetId]
    /\ assets[NativeAssetId][1].supply = U128Max
    /\ LET b == burn_token(St, call.ctx, [token_id |-> NativeAssetId,
                                          user |-> call.payload.receiver,
                                          amount |-> 1])
       IN b.res = Ok /\ b.st.assets = assets

\* ----------------------------------------------------------------- C18
\* C18: transfer is atomic: the sender's sufficiency and the recipient's
\* overflow are both checked before either record is written, so a transfer
\* that fails (self-transfer, unknown asset, insufficient balance, recipient
\* overflow) changes neither record, nor anything else, and emits no event.
C18_FailedTransferChangesNothing ==
    (call.op = "transfer" /\ result # Ok) =>
        /\ accounts = pre.accounts
        /\ assets = pre.assets
        /\ nonce = pre.nonce
        /\ events = <<>>
        /\ result.kind \in {"RecipientIsSender", "NotFoundAsset", "LackOfBalance",
                            "U128Overflow", "InvalidAddress"}

\* A transfer of more than the sender holds, to a recipient who could take
\* it, refused with LackOfBalance.
C18_Witness ==
    /\ call.op = "transfer"
    /\ call.ctx.extra = None
    /\ call.ctx.caller # call.payload.to
    /\ call.payload.asset_id = NativeAssetId
    /\ call.payload.value = U128Max
    /\ balance_of(pre.accounts, call.ctx.caller, NativeAssetId) = 1
    /\ balance_of(pre.accounts, call.payload.to, NativeAssetId) = 0
    /\ result = LackOfBalance(U128Max, 1)
    /\ accounts = pre.accounts
    /\ events = <<>>

\* A transfer refused because the recipient's balance would pass 2^128 - 1.
C18_WitnessOverflow ==
    /\ call.op = "transfer"
    /\ call.ctx.extra = None
    /\ call.ctx.caller # call.payload.to
    /\ balance_of(pre.accounts, call.ctx.caller, call.payload.asset_id)
         >= call.payload.value
    /\ result = Err("U128Overflow")
    /\ accounts = pre.accounts
    /\ events = <<>>

\* ----------------------------------------------------------------- C19
\* C19: a privileged mint_token either sets balance(receiver) to its prior
\* value plus amount, or, when that sum exceeds 2^128 - 1, fails
\* U128Overflow and leaves everything as it was; a successful mint keeps the
\* allowances the receiver granted and every other record.
C19_MintAddsOrOverflows ==
    (call.op = "mint_token" /\ call.ctx.extra # None) =>
        LET p == call.payload
            b0 == balance_of(pre.accounts, p.receiver, p.token_id)
            rec0 == pre.accounts[<<p.receiver, p.token_id>>]
            rec == accounts[<<p.receiver, p.token_id>>]
        IN IF b0 + p.amount > U128Max
           THEN /\ result = Err("U128Overflow")
                /\ St = pre
                /\ events = <<>>
           ELSE /\ result = Ok
                /\ rec # None
                /\ rec[1].value = b0 + p.amount
                /\ rec[1].allowance = unwrap_or(rec0, DefaultBalance).allowance
                /\ \A u \in AllAddresses, a \in AssetIds :
                      <<u, a>> # <<p.receiver, p.token_id>>
                          => accounts[<<u, a>>] = pre.accounts[<<u, a>>]
                /\ nonce = pre.nonce

\* A successful privileged mint to a receiver who had granted an allowance
\* of 1 on the asset: the allowance is still 1.
C19_Witness ==
    /\ call.op = "mint_token"
    /\ call.ctx.extra # None
    /\ result = Ok
    /\ call.payload.amount = 1
    /\ \E s \in Addresses :
        /\ allowance_of(pre.accounts, call.payload.receiver, s,
                        call.payload.token_id) = 1
        /\ allowance_of(accounts, call.payload.receiver, s,
                        call.payload.token_id) = 1
    /\ balance_of(accounts, call.payload.receiver, call.payload.token_id)
         = balance_of(pre.accounts, call.payload.receiver, call.payload.token_id) + 1

\* ----------------------------------------------------------------- C20
\* The descriptor mint_token registers for token id t, as far as the claim
\* describes it.
C20_Registered(reg, t) ==
    /\ reg[t] # None
    /\ reg[t][1].id = t
    /\ reg[t][1].supply = 0
    /\ reg[t][1].issuer = BridgeIssuer

\* C20: a privileged mint_token for a token id that is not registered
\* registers a descriptor with that id, supply 0 and the sentinel issuer and
\* credits the receiver with amount; a mint of a registered token id leaves
\* the registry as it was; and the id submit_messages mints under is the
\* argument of the deposit's token script, so that the deposits of one
\* foreign contract are credited to one asset.
C20_FirstMintRegisters ==
    /\ (call.op = "mint_token" /\ call.ctx.extra # None) =>
        LET p == call.payload IN
        IF pre.assets[p.token_id] = None
        THEN /\ result = Ok
             /\ C20_Registered(assets, p.token_id)
             /\ \A id \in AssetIds \ {p.token_id} : assets[id] = pre.assets[id]
             /\ balance_of(accounts, p.receiver, p.token_id) = p.amount
        ELSE assets = pre.assets
    /\ (call.op = "submit_messages" /\ result = Ok) =>
        LET ms == call.payload.messages
            TokenOf(m) == CHOOSE h \in AssetIds :
                            hash_as_hex(h) = m.tx.outputs[1].type_[1].args
            ids == {TokenOf(ms[i]) : i \in 1..Len(ms)}
        IN /\ \A i \in 1..Len(ms) :
                /\ events[2 * i - 1].asset_id = TokenOf(ms[i])
                /\ events[2 * i].asset_id = TokenOf(ms[i])
                /\ IF pre.assets[TokenOf(ms[i])] = None
                   THEN C20_Registered(assets, TokenOf(ms[i]))
                   ELSE assets[TokenOf(ms[i])] = pre.assets[TokenOf(ms[i])]
           /\ \A id \in AssetIds \ ids :
                /\ assets[id] = pre.assets[id]
                /\ \A u \in AllAddresses :
                      accounts[<<u, id>>] = pre.accounts[<<u, id>>]

\* Two deposits of the sUDT contract relayed in one call while sUDT is not
\* registered: the first mint registers the descriptor, the three mints
\* after it credit the same asset and leave the descriptor alone.
C20_Witness ==
    /\ call.op = "submit_messages"
    /\ result = Ok
    /\ Len(call.payload.messages) = 2
    /\ call.ctx.caller = "a3"
    /\ pre.assets[SudtTokenId] = None
    /\ assets[SudtTokenId]
         = Some([id |-> SudtTokenId, name |-> "ckb-image_tokensudt",
                 supply |-> 0, issuer |-> BridgeIssuer])
    /\ balance_of(accounts, "a2", SudtTokenId) = 19800
    /\ balance_of(accounts, "a3", SudtTokenId) = 200

\* ----------------------------------------------------------------- C21
\* The height a submitted header is stored under.
HeightOf(h) == hex_value(as_string_trim0x(h.number))

\* The stored header inner is the submitted header h, its nonce left aside.
StoredFrom(inner, h) ==
    /\ inner.number = HeightOf(h)
    /\ inner.compact_target = hex_value(as_string_trim0x(h.compact_target))
    /\ inner.version = hex_value(as_string_trim0x(h.version))
    /\ inner.timestamp = hex_value(as_string_trim0x(h.timestamp))
    /\ inner.epoch = hex_value(as_string_trim0x(h.epoch))
    /\ inner.parent_hash = h.parent_hash
    /\ inner.transactions_root = h.transactions_root
    /\ inner.proposals_hash = h.proposals_hash
    /\ inner.uncles_hash = h.uncles_hash
    /\ inner.dao = h.dao

\* C21: the header store is last-write-wins by height: after a successful
\* update_headers, every height of the batch holds the last header of the
\* batch with that height, whatever it held before, the heights that are
\* not in the batch hold what they held, and nothing else is stored; the
\* heights need not be contiguous.
C21_LastWriteWins ==
    (call.op = "update_headers" /\ result = Ok) =>
        LET hs == call.payload.headers
            batch == {HeightOf(hs[i]) : i \in 1..Len(hs)}
        IN /\ DOMAIN headers = DOMAIN pre.headers \cup batch
           /\ \A k \in batch :
                LET last == CHOOSE i \in 1..Len(hs) :
                                /\ HeightOf(hs[i]) = k
                                /\ \A j \in 1..Len(hs) : HeightOf(hs[j]) = k => j <= i
                IN StoredFrom(headers[k], hs[last])
           /\ \A k \in DOMAIN pre.headers \ batch : headers[k] = pre.headers[k]

\* Height 1 held a header with dao1 and height 2 another; a batch of two
\* headers of height 1, the second with dao2, leaves dao2 at height 1 and
\* height 2 as it was.
C21_Witness ==
    /\ call.op = "update_headers"
    /\ result = Ok
    /\ Len(call.payload.headers) = 2
    /\ HeightOf(call.payload.headers[1]) = 1
    /\ HeightOf(call.payload.headers[2]) = 1
    /\ call.payload.headers[1].dao = "dao1"
    /\ call.payload.headers[2].dao = "dao2"
    /\ DOMAIN pre.headers = {1, 2}
    /\ pre.headers[1].dao = "dao1"
    /\ headers[1].dao = "dao2"
    /\ headers[2] = pre.headers[2]

\* Height 2 is stored while height 1 is not.
C21_WitnessGap ==
    /\ call.op = "update_headers"
    /\ result = Ok
    /\ DOMAIN headers = {2}

\* ----------------------------------------------------------------- C22
\* C22: for each header update_headers accepted, every stored numeric field
\* (compact_target, version, timestamp, number, epoch, nonce) is the integer
\* that the corresponding hexadecimal field of the submitted header denotes,
\* and each content hash is stored as submitted; the stored nonce is the
\* value of the submitted nonce field.
C22_FieldsAsSubmitted ==
    (call.op = "update_headers" /\ result = Ok) =>
        LET hs == call.payload.headers IN
        \A i \in 1..Len(hs) :
            (\A j \in 1..Len(hs) : HeightOf(hs[j]) = HeightOf(hs[i]) => j <= i) =>
                /\ HeightOf(hs[i]) \in DOMAIN headers
                /\ StoredFrom(headers[HeightOf(hs[i])], hs[i])
                /\ headers[HeightOf(hs[i])].nonce
                     = hex_value(as_string_trim0x(hs[i].nonce))

\* ----------------------------------------------------------------- C23
\* C23: update_headers is all-or-nothing: when a header of the batch fails
\* to parse, the call fails InvalidCrossHeader and the header store is as
\* before the call, also for the valid headers that precede the failing one.
C23_FailedUpdateChangesNothing ==
    (call.op = "update_headers"
        /\ \E i \in 1..Len(call.payload.headers) :
              ~CkbHeaderInner_from(call.payload.headers[i]).ok) =>
        /\ result = Err("InvalidCrossHeader")
        /\ headers = pre.headers

\* ----------------------------------------------------------------- C24
\* C24: a transfer whose sender is its recipient fails RecipientIsSender,
\* for every asset id, registered or not, and every amount, and changes no
\* state.
C24_SelfTransferIsRefused ==
    (call.op = "transfer"
        /\ effective_caller(call.ctx).ok
        /\ effective_caller(call.ctx).val = call.payload.to) =>
        /\ result = Err("RecipientIsSender")
        /\ St = pre
        /\ events = <<>>

\* ----------------------------------------------------------------- C25
\* C25: approve changes the one allowance entry (grantor, grantee) of the
\* asset and nothing else: every balance, the grantor's allowances to other
\* grantees and every other account's record are as before; it fails
\* ApproveToYourself when the grantor is the grantee and NotFoundAsset when
\* the asset is not registered, and then changes nothing at all.
C25_ApproveFrame ==
    call.op = "approve" =>
        LET g == call.ctx.caller
            s == call.payload.to
            a == call.payload.asset_id
        IN /\ assets = pre.assets
           /\ nonce = pre.nonce
           /\ headers = pre.headers
           /\ SameBalances
           /\ \A k \in DOMAIN accounts :
                k # <<g, a>> => accounts[k] = pre.accounts[k]
           /\ \A t \in AllAddresses \ {s} :
                allowance_of(accounts, g, t, a) = allowance_of(pre.accounts, g, t, a)
           /\ IF g = s
              THEN result = Err("ApproveToYourself") /\ St = pre /\ events = <<>>
              ELSE IF pre.assets[a] = None
              THEN result = Err("NotFoundAsset") /\ St = pre /\ events = <<>>
              ELSE /\ result = Ok
                   /\ allowance_of(accounts, g, s, a) = call.payload.value

\* The holder of the native supply, who had granted 1 to one grantee, grants
\* 1 to another: the balance and the first allowance are as before.
C25_Witness ==
    /\ call.op = "approve"
    /\ result = Ok
    /\ call.payload.value = 1
    /\ call.payload.asset_id = NativeAssetId
    /\ balance_of(accounts, call.ctx.caller, NativeAssetId) = U128Max
    /\ allowance_of(pre.accounts, call.ctx.caller, call.payload.to, NativeAssetId) = 0
    /\ \E t \in Addresses \ {call.payload.to} :
        /\ allowance_of(pre.accounts, call.ctx.caller, t, NativeAssetId) = 1
        /\ allowance_of(accounts, call.ctx.caller, t, NativeAssetId) = 1

\* ----------------------------------------------------------------- C26
\* The last call carried no extra context and lowered balance(u, a) as a
\* transfer called by u, or as a transfer_from called by a spender whom u
\* had granted an allowance of at least the value moved.
C26_OwnTransferOrAllowed(u, a) ==
    LET p == call.payload
        lowered == balance_of(pre.accounts, u, a) - balance_of(accounts, u, a)
    IN \/ /\ call.op = "transfer"
          /\ call.ctx.caller = u /\ p.asset_id = a /\ p.value = lowered
       \/ /\ call.op = "transfer_from"
          /\ p.sender = u /\ p.asset_id = a /\ p.value = lowered
          /\ allowance_of(pre.accounts, u, call.ctx.caller, a) >= lowered

\* C26 as stated: a call without extra context lowers an account's balance
\* of an asset only as a transfer called by that account or as a
\* transfer_from by a spender with an allowance of at least the value moved.
C26_DebitOnlyByTransfer ==
    (call.op # "init_genesis" /\ call.ctx.extra = None) =>
        \A k \in DOMAIN accounts :
            balance_of(accounts, k[1], k[2]) < balance_of(pre.accounts, k[1], k[2])
                => C26_OwnTransferOrAllowed(k[1], k[2])

\* C26, amended: a call without extra context lowers an account's balance
\* of an asset only as a transfer called by that account, as a
\* transfer_from by a spender with an allowance of at least the value moved,
\* or as a burn_sudt called by that account, which burns the amount from the
\* caller's own balance; no such call lowers another account's balance
\* without that allowance.
C26_DebitOnlyByOwnerOrAllowed ==
    (call.op # "init_genesis" /\ call.ctx.extra = None) =>
        \A k \in DOMAIN accounts :
            balance_of(accounts, k[1], k[2]) < balance_of(pre.accounts, k[1], k[2])
                => \/ C26_OwnTransferOrAllowed(k[1], k[2])
                   \/ /\ call.op = "burn_sudt"
                      /\ call.ctx.caller = k[1]
                      /\ call.payload.token_id = k[2]
                      /\ call.payload.amount
                           = balance_of(pre.accounts, k[1], k[2])
                             - balance_of(accounts, k[1], k[2])

\* A spender without extra context moves 1 out of another account's balance
\* under an allowance of 1.
C26_Witness ==
    /\ call.op = "transfer_from"
    /\ call.ctx.extra = None
    /\ result = Ok
    /\ call.payload.sender # call.ctx.caller
    /\ call.payload.value = 1
    /\ allowance_of(pre.accounts, call.payload.sender, call.ctx.caller,
                    call.payload.asset_id) = 1
    /\ balance_of(accounts, call.payload.sender, call.payload.asset_id)
         = balance_of(pre.accounts, call.payload.sender, call.payload.asset_id) - 1

\* ----------------------------------------------------------------- C27
RECURSIVE SumBalances(_, _, _)
\* The sum of the balances of asset a over the accounts in us.
SumBalances(accts, us, a) ==
    IF us = {} THEN 0
    ELSE LET u == CHOOSE x \in us : TRUE
         IN balance_of(accts, u, a) + SumBalances(accts, us \ {u}, a)

Total(accts, a) == SumBalances(accts, AllAddresses, a)

RECURSIVE SumAmounts(_)
\* The sum of the amounts of a sequence of mint events.
SumAmounts(evs) ==
    IF evs = <<>> THEN 0 ELSE Head(evs).amount + SumAmounts(Tail(evs))

RECURSIVE SumDeposits(_)
\* The sum of the amounts of a sequence of deposits.
SumDeposits(ms) ==
    IF ms = <<>> THEN 0 ELSE DepositOf(Head(ms))[1] + SumDeposits(Tail(ms))

\* What the last call is to add to the sum of the balances of asset a.
C27_Delta(a) ==
    LET p == call.payload IN
    CASE call.op = "mint_token" ->
            IF result = Ok /\ p.token_id = a THEN p.amount ELSE 0
      [] call.op \in {"burn_token", "burn_sudt"} ->
            IF result = Ok /\ p.token_id = a THEN 0 - p.amount ELSE 0
      [] call.op = "create_asset" ->
            IF result = Ok /\ create_asset_id(p, call.ctx.caller) = a
            THEN p.supply ELSE 0
      [] call.op = "submit_messages" ->
            IF a = SudtTokenId THEN SumAmounts(events) ELSE 0
      [] OTHER -> 0

\* C27: value conservation per asset: the sum of all balances of an asset is
\* the supply credited at its creation (genesis or create_asset), raised by
\* every successful mint by its amount and lowered by every successful burn
\* by its amount; transfer, transfer_from, approve and every failed call
\* leave the sum as it was; a submit_messages that succeeds raises the sum
\* of the bridged asset by exactly the sum of the deposited amounts, also
\* when receiver and relayer are one account.
C27_ValueConservation ==
    /\ call.op = "init_genesis" =>
        \A a \in AssetIds :
            Total(accounts, a) = IF assets[a] = None THEN 0 ELSE assets[a][1].supply
    /\ call.op # "init_genesis" =>
        /\ accounts # pre.accounts =>
            \A a \in AssetIds :
                Total(accounts, a) = Total(pre.accounts, a) + C27_Delta(a)
        /\ accounts = pre.accounts =>
            \A a \in AssetIds : C27_Delta(a) = 0
        /\ (call.op = "create_asset" /\ result = Ok) =>
            Total(pre.accounts, create_asset_id(call.payload, call.ctx.caller)) = 0
        /\ (call.op = "submit_messages" /\ result = Ok) =>
            SumAmounts(events) = SumDeposits(call.payload.messages)

\* A deposit of 10000 whose receiver is the relayer raises the sum of the
\* sUDT balances by 10000, in a state from which the burn of 1 lowers it by 1
\* and a transfer of 1 leaves it as it is.
C27_Witness ==
    /\ call.op = "submit_messages"
    /\ result = Ok
    /\ call.payload.messages = <<deposit(10000, "a1")>>
    /\ call.ctx.caller = "a1"
    /\ Total(accounts, SudtTokenId) = Total(pre.accounts, SudtTokenId) + 10000
    /\ balance_of(accounts, "a1", SudtTokenId)
         = balance_of(pre.accounts, "a1", SudtTokenId) + 10000
    /\ LET b == burn_token(St, admitted(call.ctx),
                           [token_id |-> SudtTokenId, user |-> "a1", amount |-> 1])
           t == transfer(St, call.ctx,
                         [asset_id |-> SudtTokenId, to |-> "a2", value |-> 1])
       IN /\ b.res = Ok
          /\ Total(b.st.accounts, SudtTokenId) = Total(accounts, SudtTokenId) - 1
          /\ t.res = Ok
          /\ Total(t.st.accounts, SudtTokenId) = Total(accounts, SudtTokenId)

\* ----------------------------------------------------------------- C28
\* C28: each successful burn_sudt emits exactly one BurnToken event, with
\* the burn applied, whose nonce is the counter after the increment; the
\* k-th BurnToken event since genesis carries nonce k, so the nonces are
\* strictly increasing and none is used twice; a failed burn_sudt, and every
\* other call, emits no BurnToken event.
C28_WithdrawalNonces ==
    /\ Len(withdrawn) = nonce
    /\ \A k \in 1..Len(withdrawn) : withdrawn[k] = k
    /\ (call.op = "burn_sudt" /\ result = Ok) =>
        /\ Len(events) = 1
        /\ events[1].event = "BurnToken"
        /\ events[1].nonce = pre.nonce + 1
        /\ events[1].nonce = nonce
        /\ events[1].muta_sender = call.ctx.caller
        /\ events[1].amount = call.payload.amount
        /\ balance_of(accounts, call.ctx.caller, call.payload.token_id)
             = balance_of(pre.accounts, call.ctx.caller, call.payload.token_id)
               - call.payload.amount
    /\ (call.op = "burn_sudt" /\ result # Ok) => events = <<>>
    /\ (call.op # "init_genesis" /\ call.op # "burn_sudt") =>
        \A i \in 1..Len(events) : events[i].event # "BurnToken"

\* The second withdrawal since genesis carries nonce 2.
C28_Witness ==
    /\ call.op = "burn_sudt"
    /\ result = Ok
    /\ call.payload.amount = 1
    /\ withdrawn = <<1, 2>>
    /\ events[1].nonce = 2
    /\ nonce = 2

====
